---- MODULE Spec2Model ----
(***************************************************************************)
(* tradedangerous/misc/deltarows.py: the merge walk `delta` over two       *)
(* id-ordered row streams, and its DEL-suppressing wrapper                 *)
(* `delta_partial`.                                                        *)
(*                                                                         *)
(* `delta` is a Python generator.  Its frame (the two iterators, the two   *)
(* current rows, the captured pair, the suspension point) is the state;    *)
(* every action runs the code from one loop head or suspension point to    *)
(* the next one.                                                           *)
(***************************************************************************)
EXTENDS Integers, Sequences, FiniteSets

(***************************************************************************)
(* Bounds of the model.                                                    *)
(***************************************************************************)
\* Total number of records in old and new together.
MaxRows == 3
\* Row ids are 1..MaxId.
MaxId == 2
\* Longest column list of the rows of SpecPair.
MaxCols == 2

(***************************************************************************)
(* Python objects.  A value is its type t, its payload n, and k, which     *)
(* tells apart two instances that are equal by value: `!=` reads (t, n),   *)
(* `is` reads the whole object.  None is a singleton.                      *)
(***************************************************************************)
NoneObj == [t |-> "none", n |-> 0, k |-> 0]
Num(n) == [t |-> "num", n |-> n, k |-> 0]
Dt(n) == [t |-> "datetime", n |-> n, k |-> 0]
Str(n) == [t |-> "str", n |-> n, k |-> 0]
\* Another instance holding the same value (None has no other instance).
Copy(v) == IF v.t = "none" THEN v ELSE [v EXCEPT !.k = 1]

\* bool(v): None and the number zero are falsy, a datetime never is.
Truthy(v) == ~(v.t = "none" \/ (v.t = "num" /\ v.n = 0))

\* None ranked below every number instead of being read as zero.
NoneBelowZero(v) == IF v.t = "none" THEN Num(-1) ELSE v

\* `v or 0`
Or0(v) == IF Truthy(v) THEN v ELSE Num(0)

\* a >= b is defined between two numbers and between two datetimes; an int
\* against a datetime raises TypeError.
Comparable(a, b) == a.t = b.t /\ a.t \in {"num", "datetime"}

\* The comparison made strict.
GreaterThan(a, b) == a.n > b.n

GreaterEq(a, b) == a.n >= b.n

\* a != b
NotEqual(a, b) == a.t # b.t \/ a.n # b.n

\* Identity weakened to equality by value.
EqualByValue(a, b) == a.t = b.t /\ a.n = b.n

\* a is b
Is(a, b) == a = b

(***************************************************************************)
(* DeltaRow, and the rows and streams the calls are made on.               *)
(***************************************************************************)
DeltaRow(id, modified, columns) ==
    [id |-> id, modified |-> modified, columns |-> columns]

Ids == 1..MaxId

\* The (modified, columns) of the rows of Spec and SpecPrefix: no timestamp,
\* a timestamp mirrored into the columns by reference, a changed column, a
\* shorter column list, and a datetime timestamp.
Contents ==
    { [modified |-> NoneObj, columns |-> <<Str(1), NoneObj>>],
      [modified |-> Num(1), columns |-> <<Str(1), Num(1)>>],
      [modified |-> Num(1), columns |-> <<Str(2), Num(1)>>],
      [modified |-> Num(1), columns |-> <<Str(1)>>],
      [modified |-> Dt(1), columns |-> <<Str(1), Dt(1)>>] }

\* The rows of SpecPair: every timestamp below, and every column list of up
\* to MaxCols cells, a cell being a string, the row's own modified object,
\* or another instance equal to it by value.
Timestamps == {NoneObj, Num(0), Num(1), Num(2), Dt(1)}

Cells(m) == {Str(1), m, Copy(m)}

ColumnLists(m) == UNION { [1..l -> Cells(m)] : l \in 0..MaxCols }

PairRows ==
    UNION { { DeltaRow(i, m, c) : i \in Ids, c \in ColumnLists(m) } :
            m \in Timestamps }

RowsOf(ids, contents) ==
    { DeltaRow(i, c.modified, c.columns) : i \in ids, c \in contents }

\* "Both streams should be ordered by the id field."
Ordered(s) == \A i \in 1..(Len(s) - 1) : s[i].id <= s[i + 1].id

Streams(rows, n) == { s \in [1..n -> rows] : Ordered(s) }

(***************************************************************************)
(* The state.  old_rows / new_rows are the iterators (the number of        *)
(* records pulled so far); old_row / new_row / prev_old_row / prev_new_row *)
(* hold the index of a record in its stream, 0 for None.  out is what      *)
(* delta has yielded, partial what delta_partial has passed on of it, err  *)
(* the exception that ended the call.  old_tail, new_tail,                 *)
(* original_result and calls belong to the caller that runs delta, keeps   *)
(* the result, appends higher ids to both lists and runs delta again.      *)
(***************************************************************************)
VARIABLES old, new, old_rows, new_rows, old_row, new_row,
          prev_old_row, prev_new_row, pc, out, partial, err,
          old_tail, new_tail, original_result, calls

vars == <<old, new, old_rows, new_rows, old_row, new_row,
          prev_old_row, prev_new_row, pc, out, partial, err,
          old_tail, new_tail, original_result, calls>>

frame == <<old_rows, new_rows, old_row, new_row, prev_old_row, prev_new_row>>

inputs == <<old, new, old_tail, new_tail, original_result, calls>>

\* next(it, None): the index of the record pulled, 0 when the iterator is
\* exhausted; and the iterator afterwards.
NextRow(stream, it) == IF it < Len(stream) THEN it + 1 ELSE 0

\* An iterator that reads one record ahead of the one it hands out.
AdvanceAhead(stream, it) == IF it + 1 < Len(stream) THEN it + 2 ELSE Len(stream)

Advance(stream, it) == IF it < Len(stream) THEN it + 1 ELSE it

\* `while old_row and new_row`: a DeltaRow is always truthy, None never.
Both == old_row # 0 /\ new_row # 0

\* The filter testing the wrong op.
PartialKeepsNoAdd(op) == op # "ADD"

\* delta_partial's filter: `if op != Op.DEL`.
PartialKeeps(op) == op # "DEL"

\* What a `yield op, row` of delta hands to the consumer, and what
\* delta_partial's generator expression passes on of it.
Yield(op, row) ==
    /\ out' = Append(out, [op |-> op, row |-> row])
    /\ partial' = IF PartialKeeps(op)
                  THEN Append(partial, [op |-> op, row |-> row])
                  ELSE partial

\* The freshness test: (old_modified or 0) >= (new_modified or 0).
FreshnessDefined(o, n) == Comparable(Or0(o.modified), Or0(n.modified))

OldAtLeastAsFresh(o, n) == GreaterEq(Or0(o.modified), Or0(n.modified))

\* The assertion on the two column lists.
SameLength(o, n) == Len(o.columns) = Len(n.columns)

Min(a, b) == IF a < b THEN a ELSE b

\* The column scan over zip(old.columns, new.columns): UPD unless some pair
\* differs and is not the two records' own modified objects.
ColumnsOp(o, n) ==
    IF \E i \in 1..Min(Len(o.columns), Len(n.columns)) :
          /\ NotEqual(o.columns[i], n.columns[i])
          /\ ~(Is(o.columns[i], o.modified) /\ Is(n.columns[i], n.modified))
    THEN "MOD"
    ELSE "UPD"

(***************************************************************************)
(* The actions of delta.                                                   *)
(***************************************************************************)
\* The call starts: both iterators are made and the first record of each
\* is pulled.
Start ==
    /\ pc = "start"
    /\ old_row' = NextRow(old, old_rows)
    /\ old_rows' = Advance(old, old_rows)
    /\ new_row' = NextRow(new, new_rows)
    /\ new_rows' = Advance(new, new_rows)
    /\ pc' = "loop"
    /\ UNCHANGED <<prev_old_row, prev_new_row, out, partial, err, inputs>>

\* The deletion branch yielding the record it compared against.
DeletionYieldsNew ==
    /\ pc = "loop" /\ Both
    /\ old[old_row].id < new[new_row].id
    /\ Yield("DEL", new[new_row])
    /\ pc' = "yield_del"
    /\ UNCHANGED <<frame, err, inputs>>

\* old_row.id < new_row.id: yield DEL and suspend before the advance.
Deletion ==
    /\ pc = "loop" /\ Both
    /\ old[old_row].id < new[new_row].id
    /\ Yield("DEL", old[old_row])
    /\ pc' = "yield_del"
    /\ UNCHANGED <<frame, err, inputs>>

\* Resumed after a DEL: advance old, back to the loop head.
ResumeDeletion ==
    /\ pc = "yield_del"
    /\ old_row' = NextRow(old, old_rows)
    /\ old_rows' = Advance(old, old_rows)
    /\ pc' = "loop"
    /\ UNCHANGED <<new_rows, new_row, prev_old_row, prev_new_row,
                   out, partial, err, inputs>>

\* old_row.id > new_row.id: yield ADD and suspend before the advance.
Addition ==
    /\ pc = "loop" /\ Both
    /\ old[old_row].id > new[new_row].id
    /\ Yield("ADD", new[new_row])
    /\ pc' = "yield_add"
    /\ UNCHANGED <<frame, err, inputs>>

\* Resumed after an ADD: advance new, back to the loop head.
ResumeAddition ==
    /\ pc = "yield_add"
    /\ new_row' = NextRow(new, new_rows)
    /\ new_rows' = Advance(new, new_rows)
    /\ pc' = "loop"
    /\ UNCHANGED <<old_rows, old_row, prev_old_row, prev_new_row,
                   out, partial, err, inputs>>

\* Equal ids: "get the advance out of the way", capturing the pair.
AdvanceBoth ==
    /\ prev_old_row' = old_row
    /\ prev_new_row' = new_row
    /\ old_row' = NextRow(old, old_rows)
    /\ old_rows' = Advance(old, old_rows)
    /\ new_row' = NextRow(new, new_rows)
    /\ new_rows' = Advance(new, new_rows)

SameId == pc = "loop" /\ Both /\ old[old_row].id = new[new_row].id

\* The freshness comparison itself raises.
PairTypeError ==
    /\ SameId
    /\ ~FreshnessDefined(old[old_row], new[new_row])
    /\ AdvanceBoth
    /\ pc' = "raised"
    /\ err' = "TypeError"
    /\ UNCHANGED <<out, partial, inputs>>

\* The old record is at least as fresh: continue.
PairUnchanged ==
    /\ SameId
    /\ FreshnessDefined(old[old_row], new[new_row])
    /\ OldAtLeastAsFresh(old[old_row], new[new_row])
    /\ AdvanceBoth
    /\ pc' = "loop"
    /\ UNCHANGED <<out, partial, err, inputs>>

\* The new record is fresher and the assertion fails.
PairMismatch ==
    /\ SameId
    /\ FreshnessDefined(old[old_row], new[new_row])
    /\ ~OldAtLeastAsFresh(old[old_row], new[new_row])
    /\ ~SameLength(old[old_row], new[new_row])
    /\ AdvanceBoth
    /\ pc' = "raised"
    /\ err' = "AssertionError"
    /\ UNCHANGED <<out, partial, inputs>>

\* The new record is fresher: scan the columns and yield UPD or MOD.
PairChanged ==
    /\ SameId
    /\ FreshnessDefined(old[old_row], new[new_row])
    /\ ~OldAtLeastAsFresh(old[old_row], new[new_row])
    /\ SameLength(old[old_row], new[new_row])
    /\ AdvanceBoth
    /\ Yield(ColumnsOp(old[old_row], new[new_row]), new[new_row])
    /\ pc' = "yield_op"
    /\ UNCHANGED <<err, inputs>>

\* Resumed after UPD or MOD: straight back to the loop head.
ResumePair ==
    /\ pc = "yield_op"
    /\ pc' = "loop"
    /\ UNCHANGED <<frame, out, partial, err, inputs>>

\* `while new_row`: only new records remain.
DrainNew ==
    /\ pc = "loop" /\ ~Both /\ new_row # 0
    /\ Yield("ADD", new[new_row])
    /\ pc' = "yield_drain_add"
    /\ UNCHANGED <<frame, err, inputs>>

ResumeDrainNew ==
    /\ pc = "yield_drain_add"
    /\ new_row' = NextRow(new, new_rows)
    /\ new_rows' = Advance(new, new_rows)
    /\ pc' = "loop"
    /\ UNCHANGED <<old_rows, old_row, prev_old_row, prev_new_row,
                   out, partial, err, inputs>>

\* The second drain loop yielding the op of the first.
DrainOldAsAdd ==
    /\ pc = "loop" /\ ~Both /\ new_row = 0 /\ old_row # 0
    /\ Yield("ADD", old[old_row])
    /\ pc' = "yield_drain_del"
    /\ UNCHANGED <<frame, err, inputs>>

\* `while old_row`: only old records remain.
DrainOld ==
    /\ pc = "loop" /\ ~Both /\ new_row = 0 /\ old_row # 0
    /\ Yield("DEL", old[old_row])
    /\ pc' = "yield_drain_del"
    /\ UNCHANGED <<frame, err, inputs>>

ResumeDrainOld ==
    /\ pc = "yield_drain_del"
    /\ old_row' = NextRow(old, old_rows)
    /\ old_rows' = Advance(old, old_rows)
    /\ pc' = "loop"
    /\ UNCHANGED <<new_rows, new_row, prev_old_row, prev_new_row,
                   out, partial, err, inputs>>

\* Both streams are exhausted: the generator returns.
Return ==
    /\ pc = "loop" /\ old_row = 0 /\ new_row = 0
    /\ pc' = "returned"
    /\ UNCHANGED <<frame, out, partial, err, inputs>>

Delta ==
    \/ Start
    \/ Deletion
    \/ ResumeDeletion
    \/ Addition
    \/ ResumeAddition
    \/ PairTypeError
    \/ PairUnchanged
    \/ PairMismatch
    \/ PairChanged
    \/ ResumePair
    \/ DrainNew
    \/ ResumeDrainNew
    \/ DrainOld
    \/ ResumeDrainOld
    \/ Return

\* The generator's frame when delta(o, n) is called.
Call(o, n) ==
    /\ old = o /\ new = n
    /\ old_rows = 0 /\ new_rows = 0
    /\ old_row = 0 /\ new_row = 0
    /\ prev_old_row = 0 /\ prev_new_row = 0
    /\ pc = "start"
    /\ out = <<>> /\ partial = <<>>
    /\ err = "none"

(***************************************************************************)
(* Spec: one call of delta on any two id-ordered streams of at most        *)
(* MaxRows records together, or on one stream passed as both old and new.  *)
(***************************************************************************)
InitAny ==
    \E lo \in 0..MaxRows : \E ln \in 0..(MaxRows - lo) :
        \E o \in Streams(RowsOf(Ids, Contents), lo) :
            \E n \in Streams(RowsOf(Ids, Contents), ln) :
                Call(o, n)

\* delta(rows, rows): the same stream on both sides, of up to MaxRows
\* records in any order of id.
InitSame ==
    \E l \in 0..MaxRows :
        \E rows \in [1..l -> RowsOf(Ids, Contents)] :
            Call(rows, rows)

Init ==
    /\ InitAny \/ InitSame
    /\ old_tail = <<>> /\ new_tail = <<>>
    /\ original_result = <<>>
    /\ calls = 1

Next == Delta

Spec == Init /\ [][Next]_vars

(***************************************************************************)
(* SpecPair: one call of delta on one old and one new record, over every   *)
(* timestamp and column list of PairRows.                                  *)
(***************************************************************************)
InitPair ==
    /\ \E o \in PairRows : \E n \in PairRows : Call(<<o>>, <<n>>)
    /\ old_tail = <<>> /\ new_tail = <<>>
    /\ original_result = <<>>
    /\ calls = 1

SpecPair == InitPair /\ [][Next]_vars

(***************************************************************************)
(* SpecPrefix: delta on two id-ordered streams cut at an id, then, with    *)
(* the result kept, delta again on the streams with the records above the  *)
(* cut appended.                                                           *)
(***************************************************************************)
\* The contents of the rows of SpecPrefix.
PrefixContents ==
    { [modified |-> NoneObj, columns |-> <<Str(1), NoneObj>>],
      [modified |-> Num(1), columns |-> <<Str(1), Num(1)>>],
      [modified |-> Num(1), columns |-> <<Str(1)>>],
      [modified |-> Dt(1), columns |-> <<Str(1), Dt(1)>>] }

UpTo(s, cut) == SelectSeq(s, LAMBDA r : r.id <= cut)

Above(s, cut) == SelectSeq(s, LAMBDA r : r.id > cut)

InitPrefix ==
    /\ \E lo \in 0..MaxRows : \E ln \in 0..(MaxRows - lo) :
         \E o \in Streams(RowsOf(Ids, PrefixContents), lo) :
            \E n \in Streams(RowsOf(Ids, PrefixContents), ln) :
                \E cut \in 1..(MaxId - 1) :
                    /\ Call(UpTo(o, cut), UpTo(n, cut))
                    /\ old_tail = Above(o, cut)
                    /\ new_tail = Above(n, cut)
    /\ original_result = <<>>
    /\ calls = 1

\* The first call is over: keep its result, extend both lists, call again.
Extend ==
    /\ calls = 1
    /\ pc \in {"returned", "raised"}
    /\ original_result' = out
    /\ old' = old \o old_tail
    /\ new' = new \o new_tail
    /\ calls' = 2
    /\ old_rows' = 0 /\ new_rows' = 0
    /\ old_row' = 0 /\ new_row' = 0
    /\ prev_old_row' = 0 /\ prev_new_row' = 0
    /\ pc' = "start"
    /\ out' = <<>> /\ partial' = <<>>
    /\ err' = "none"
    /\ UNCHANGED <<old_tail, new_tail>>

NextPrefix == Delta \/ Extend

SpecPrefix == InitPrefix /\ [][NextPrefix]_vars

(***************************************************************************)
(* Vocabulary of the properties.                                           *)
(***************************************************************************)
Terminated == pc \in {"returned", "raised"}

Suspended ==
    pc \in {"yield_del", "yield_add", "yield_op",
            "yield_drain_add", "yield_drain_del"}

Entries(op, rows) == [i \in 1..Len(rows) |-> [op |-> op, row |-> rows[i]]]

IsDel(e) == e.op = "DEL"

IsAdd(e) == e.op = "ADD"

IdsOf(s) == { s[i].id : i \in 1..Len(s) }

StrictlyIncreasing(s) == \A i \in 1..(Len(s) - 1) : s[i].id < s[i + 1].id

\* "None is treated as zero": the timestamp the freshness rule reads.
Zeroed(m) == IF m.t = "none" THEN Num(0) ELSE m

\* (old.modified or 0) >= (new.modified or 0)
StaysUnchanged(o, n) ==
    /\ Zeroed(o.modified).t = Zeroed(n.modified).t
    /\ Zeroed(o.modified).n >= Zeroed(n.modified).n

\* (old.modified or 0) < (new.modified or 0)
StrictlyFresher(o, n) ==
    /\ Zeroed(o.modified).t = Zeroed(n.modified).t
    /\ Zeroed(o.modified).n < Zeroed(n.modified).n

\* Column i differs by value between the two records.
Differs(o, n, i) ==
    <<o.columns[i].t, o.columns[i].n>> # <<n.columns[i].t, n.columns[i].n>>

\* Column i holds, on both sides, the record's own modified object.
OwnTimestamps(o, n, i) ==
    o.columns[i] = o.modified /\ n.columns[i] = n.modified

\* The op the column rule gives a fresher pair of equal arity.
RuleOp(o, n) ==
    IF \A i \in 1..Len(o.columns) : Differs(o, n, i) => OwnTimestamps(o, n, i)
    THEN "UPD"
    ELSE "MOD"

RuleEntries(o, n) ==
    IF StaysUnchanged(o, n) THEN <<>> ELSE <<[op |-> RuleOp(o, n), row |-> n]>>

OldAt(i) == SelectSeq(old, LAMBDA r : r.id = i)

NewAt(i) == SelectSeq(new, LAMBDA r : r.id = i)

\* The k-th record of an id in old against the k-th in new; what is left
\* over on one side is deleted or added.
RECURSIVE Paired(_, _)
Paired(os, ns) ==
    IF os = <<>> THEN Entries("ADD", ns)
    ELSE IF ns = <<>> THEN Entries("DEL", os)
    ELSE RuleEntries(Head(os), Head(ns)) \o Paired(Tail(os), Tail(ns))

RECURSIVE ExpectedOver(_)
ExpectedOver(ids) ==
    IF ids = {} THEN <<>>
    ELSE LET i == CHOOSE x \in ids : \A y \in ids : x <= y
         IN  Paired(OldAt(i), NewAt(i)) \o ExpectedOver(ids \ {i})

Expected == ExpectedOver(IdsOf(old) \cup IdsOf(new))

\* Every positional pair of equal id has column lists of one length.
RECURSIVE SameArity(_, _)
SameArity(os, ns) ==
    \/ os = <<>>
    \/ ns = <<>>
    \/ /\ Len(Head(os).columns) = Len(Head(ns).columns)
       /\ SameArity(Tail(os), Tail(ns))

PairsSameArity == \A i \in IdsOf(old) \cap IdsOf(new) : SameArity(OldAt(i), NewAt(i))

\* UPD and MOD read as one kind, "changed".
Kind(e) == [e EXCEPT !.op = IF e.op \in {"UPD", "MOD"} THEN "CHG" ELSE e.op]

Kinds(s) == [i \in 1..Len(s) |-> Kind(s[i])]

(***************************************************************************)
(* C1.  Complete output on strictly increasing streams.                    *)
(***************************************************************************)
\* C1: for old and new strictly increasing by id, same-id pairs of equal
\* arity, delta runs to its end and its whole output is, by ascending id,
\* DEL old for an id only in old, ADD new for an id only in new, nothing
\* for a pair whose old is at least as fresh, and otherwise one UPD or MOD
\* carrying the new record.
C1_CompleteOutput ==
    (StrictlyIncreasing(old) /\ StrictlyIncreasing(new) /\ PairsSameArity)
        => /\ pc # "raised"
           /\ pc = "returned" =>
                /\ Kinds(out) = Kinds(Expected)
                /\ \A i \in 1..(Len(out) - 1) : out[i].row.id < out[i + 1].row.id

(***************************************************************************)
(* C2.  UPD or MOD.                                                        *)
(***************************************************************************)
OnePair == Len(old) = 1 /\ Len(new) = 1 /\ old[1].id = new[1].id

C3_FreshnessComparison ==
    OnePair =>
        /\ StaysUnchanged(old[1], new[1]) => (out = <<>> /\ pc # "raised")
        /\ Terminated =>
              ((out # <<>>) <=> (/\ StrictlyFresher(old[1], new[1])
                                 /\ Len(old[1].columns) = Len(new[1].columns)))

\* A finished walk over a pair whose timestamps are None and 0 and whose
\* column lists differ, also in length: nothing was reported.
C3_Witness ==
    /\ pc = "returned" /\ OnePair
    /\ old[1].modified = NoneObj /\ new[1].modified = Num(0)
    /\ Len(old[1].columns) # Len(new[1].columns)
    /\ out = <<>>

(***************************************************************************)
(* C4.  Streams that share no id.                                          *)
(***************************************************************************)
DisjointIds == IdsOf(old) \cap IdsOf(new) = {}

\* C4: on id-ordered streams sharing no id, delta never fails and its
\* output holds exactly the old records as DEL, in old's order, and the
\* new records as ADD, in new's order, and nothing else.
C4_DisjointStreams ==
    (Ordered(old) /\ Ordered(new) /\ DisjointIds)
        => /\ pc # "raised"
           /\ pc = "returned" =>
                /\ SelectSeq(out, IsDel) = Entries("DEL", old)
                /\ SelectSeq(out, IsAdd) = Entries("ADD", new)
                /\ Len(out) = Len(old) + Len(new)

\* A finished walk that interleaved deletions and additions.
C4_Witness ==
    /\ pc = "returned" /\ DisjointIds
    /\ Len(old) >= 1 /\ Len(new) >= 1 /\ Len(old) + Len(new) = MaxRows
    /\ old[1].id > new[1].id
    /\ Len(out) = MaxRows

(***************************************************************************)
(* C5.  delta(rows, rows).                                                 *)
(***************************************************************************)
\* C5: with the same records on both sides delta yields nothing, at any
\* point of the walk, and does not fail.
C5_Idempotence ==
    old = new => (out = <<>> /\ pc # "raised")

\* A finished walk over a stream that repeats an id, is not ordered by id
\* and has a row with no timestamp.
C5_Witness ==
    /\ old = new /\ pc = "returned"
    /\ Len(old) = MaxRows
    /\ old[1].id = old[2].id
    /\ old[MaxRows].id < old[1].id
    /\ old[1].modified = NoneObj
    /\ old[MaxRows].modified # NoneObj

(***************************************************************************)
(* C6.  The only failure.                                                  *)
(***************************************************************************)
\* C6: delta fails only on the contract violation: the pair it has just
\* captured has equal ids, a strictly fresher new record and column lists
\* of different lengths.
C6_OnlyContractViolation ==
    pc = "raised" =>
        /\ prev_old_row # 0 /\ prev_new_row # 0
        /\ old[prev_old_row].id = new[prev_new_row].id
        /\ StrictlyFresher(old[prev_old_row], new[prev_new_row])
        /\ Len(old[prev_old_row].columns) # Len(new[prev_new_row].columns)

(***************************************************************************)
(* C7.  Prefix stability.                                                  *)
(***************************************************************************)
\* The records the second call was given beyond those of the first all
\* have ids above every id of the first call's streams.
AppendedAbove ==
    LET bo == Len(old) - Len(old_tail)
        bn == Len(new) - Len(new_tail)
        base == { old[i].id : i \in 1..bo } \cup { new[i].id : i \in 1..bn }
        more == IdsOf(old_tail) \cup IdsOf(new_tail)
    IN  \A b \in base : \A m \in more : b < m

\* C7: when delta is run again on id-ordered streams extended by records
\* of higher ids, its output begins with the entries of the first run,
\* unchanged in kind, record and order.
C7_PrefixStability ==
    (calls = 2 /\ Terminated /\ Ordered(old) /\ Ordered(new) /\ AppendedAbove)
        => /\ Len(original_result) <= Len(out)
           /\ SubSeq(out, 1, Len(original_result)) = original_result

\* A second run that repeated a non-empty first result and then went on
\* to report appended records of both streams.
C7_Witness ==
    /\ calls = 2 /\ pc = "returned" /\ AppendedAbove
    /\ old_tail # <<>> /\ new_tail # <<>>
    /\ original_result # <<>>
    /\ Len(out) > Len(original_result)
    /\ SubSeq(out, 1, Len(original_result)) = original_result

(***************************************************************************)
(* C8.  delta_partial.                                                     *)
(***************************************************************************)
RECURSIVE WithoutDel(_)
WithoutDel(s) ==
    IF s = <<>> THEN <<>>
    ELSE IF Head(s).op = "DEL" THEN WithoutDel(Tail(s))
    ELSE <<Head(s)>> \o WithoutDel(Tail(s))

\* C8: what delta_partial has yielded is what delta has yielded with the
\* DEL entries taken out, in the same order, and it holds no DEL.
C8_PartialIsFilteredDelta ==
    /\ partial = WithoutDel(out)
    /\ \A i \in 1..Len(partial) : partial[i].op # "DEL"

\* A finished walk in which delta_partial dropped something and kept
\* something.
C8_Witness ==
    /\ pc = "returned"
    /\ partial # <<>>
    /\ Len(partial) < Len(out)
    /\ \E i \in 1..Len(partial) : partial[i].op \in {"UPD", "MOD"}

(***************************************************************************)
(* C9.  What has been pulled when an operation is emitted.                 *)
(***************************************************************************)
\* The last record of old (of new) that the operation being emitted is
\* about or was compared against, or, with that side exhausted, its last
\* record: everything before it has been emitted or skipped.
OpOld == IF pc = "yield_op" THEN prev_old_row
         ELSE IF old_row # 0 THEN old_row ELSE Len(old)

OpNew == IF pc = "yield_op" THEN prev_new_row
         ELSE IF new_row # 0 THEN new_row ELSE Len(new)

\* C9 as claimed: when an operation is emitted, nothing has been pulled
\* from either input beyond the records already resolved, the record of
\* the operation and the record it was compared against.
C9_NothingPulledAhead ==
    Suspended => (old_rows <= OpOld /\ new_rows <= OpNew)

\* C9 as amended: a DEL or an ADD is emitted with nothing pulled ahead; a
\* UPD or a MOD is emitted after both cursors have moved on, so the record
\* that follows the pair on each side, when there is one, has been pulled.
C9_PulledAtEmission ==
    /\ (Suspended /\ pc # "yield_op")
          => (old_rows = OpOld /\ new_rows = OpNew)
    /\ pc = "yield_op"
          => /\ old_rows = Min(prev_old_row + 1, Len(old))
             /\ new_rows = Min(prev_new_row + 1, Len(new))

\* A UPD or MOD being emitted with the record after the pair already
\* pulled from old.
C9_Witness ==
    /\ pc = "yield_op"
    /\ out[Len(out)].row = new[prev_new_row]
    /\ old_rows = prev_old_row + 1 /\ old_row = old_rows
    /\ old[old_row].id > old[prev_old_row].id

(***************************************************************************)
(* C10.  Repeated ids.                                                     *)
(***************************************************************************)
\* C10: on id-ordered streams, the k-th record of an id in old is paired
\* with the k-th of that id in new and each pair is classified on its own;
\* the unpaired rest is deleted or added; no error is raised.
C10_PositionalPairing ==
    (Ordered(old) /\ Ordered(new) /\ PairsSameArity)
        => /\ pc # "raised"
           /\ pc = "returned" => out = Expected

====
